---- MODULE Spec2Model ----
(***************************************************************************)
(* Model of src/src/split_by_buffered.rs: the fixed-capacity RingBuf, the  *)
(* SplitByBuffered coordinator (poll_next_true / poll_next_false) and the  *)
(* two stream handles TrueSplitByBuffered / FalseSplitByBuffered that      *)
(* reach the coordinator through Arc<Mutex<..>>::try_lock.                 *)
(*                                                                         *)
(* Items are identified by their position in the upstream sequence         *)
(* (1..Len(stream)); stream[i] is what the predicate does on item i:       *)
(* "T" (returns true), "F" (returns false) or "P" (panics).                *)
(*                                                                         *)
(* A poll_next call is one step from try_lock to its return, except when   *)
(* upstream yields an item: the call then keeps the guard (lock) and the   *)
(* item (inflight) across the predicate call, which is a second step, so   *)
(* that the other handle can be polled, or dropped, in between.            *)
(* RingBuf::len is modelled as written: it is (tail + N - head) % N, which *)
(* is 0 again once tail has wrapped onto head.                             *)
(***************************************************************************)
EXTENDS Integers, Sequences, FiniteSets, TLC

\* ---- bounds of the model ------------------------------------------------
MaxN == 3          \* largest buffer capacity N explored
MaxLen == 3        \* longest upstream sequence explored
MaxWakers == 2     \* number of distinct wakers a caller may pass in cx
MaxOps == 6
MaxNaps == 1        \* number of push_back calls in the RingBuf-only specification

VARIABLES
    N,            \* const generic N of RingBuf / SplitByBuffered
    stream,       \* the upstream sequence: predicate outcome of each item
    pos,          \* number of items upstream has yielded so far
    exhausted,    \* upstream has reported Ready(None)
    buf_true,     \* SplitByBuffered.buf_true
    buf_false,    \* SplitByBuffered.buf_false
    waker_true,   \* SplitByBuffered.waker_true
    waker_false,  \* SplitByBuffered.waker_false
    lock,         \* who holds the Mutex: "free", "true" or "false"
    poisoned,     \* the Mutex is poisoned (a holder panicked)
    pc,           \* position of each handle's poll_next call
    inflight,     \* the upstream item each call holds while it calls the predicate
    res,          \* what each handle's last poll_next call returned
    out,          \* the items each handle has returned so far, in order
    pend,         \* items push_back accepted into each buffer and pop_front has not returned
    woke,         \* wakers invoked by the last step
    turn,         \* alternating specification: the handle polled next
    rb,           \* RingBuf-only specification: the buffer
    rbq,          \* RingBuf-only specification: accepted, not yet popped items
    rbn,          \* RingBuf-only specification: number of push_back calls so far
    rbs,          \* RingBuf-only specification: what each slot of data holds
    rop,          \* RingBuf-only specification: the last call and what it returned
    notified,     \* two-task specification: tasks whose waker was invoked since their last poll
    lost,         \* two-task specification: tasks whose last poll failed try_lock
    up_waker,     \* two-task specification: the waker upstream keeps to announce readiness
    naps          \* two-task specification: how often upstream has answered Pending

vars == <<N, stream, pos, exhausted, buf_true, buf_false, waker_true,
          waker_false, lock, poisoned, pc, inflight, res, out, pend, woke,
          turn, rb, rbq, rbn, rbs, rop, notified, lost, up_waker, naps>>

coordVars == <<stream, pos, exhausted, buf_true, buf_false, waker_true,
               waker_false, lock, poisoned, pc, inflight, res, out, pend, woke>>

ringVars == <<rb, rbq, rbn, rbs, rop>>

schedVars == <<notified, lost, up_waker, naps>>

\* ---- values --------------------------------------------------------------
None == 0          \* Option::None (items and wakers are positive)
Uninit == 0        \* a MaybeUninit slot that was never written
Wakers == 1..MaxWakers
Handles == {"true", "false"}
Outcomes == {"T", "F", "P"}

RECURSIVE SeqsUpTo(_, _)
SeqsUpTo(S, n) ==
    IF n = 0 THEN {<<>>}
    ELSE LET shorter == SeqsUpTo(S, n - 1) IN
         shorter \cup {Append(s, x) : s \in {t \in shorter : Len(t) = n - 1}, x \in S}

\* upstream sequences: a panic of the predicate poisons the Mutex, so no item
\* after the first "P" is ever pulled and "P" is explored in last place only
Streams ==
    {s \in SeqsUpTo(Outcomes, MaxLen) : \A i \in 1..Len(s) : s[i] = "P" => i = Len(s)}

\* the oldest item of a queue, None when it is empty
Front(q) == IF q = <<>> THEN None ELSE Head(q)

Without(q, x) == SelectSeq(q, LAMBDA y : y # x)

\* ---- RingBuf -------------------------------------------------------------
RingBuf_new ==
    [head |-> 0, tail |-> 0, data |-> [i \in 0..(N - 1) |-> Uninit]]

\* len that forgets the `% N`
len_no_mod(b) == (b.tail + N) - b.head

len(b) == ((b.tail + N) - b.head) % N

remaining(b) == N - len(b)

is_empty(b) == len(b) = 0

\* push_back that keeps one slot free: it hands the item back at len() = N - 1
push_back_keeps_slot_free(b, item) ==
    IF len(b) < N - 1
    THEN [buf |-> [b EXCEPT !.data[b.tail] = item, !.tail = (b.tail + 1) % N],
          ret |-> None]
    ELSE [buf |-> b, ret |-> item]

\* push_back returns the buffer afterwards and the Option<T> it hands back
push_back(b, item) ==
    IF remaining(b) > 0
    THEN [buf |-> [b EXCEPT !.data[b.tail] = item, !.tail = (b.tail + 1) % N],
          ret |-> None]
    ELSE [buf |-> b, ret |-> item]

\* what reading slot i moves out: an unwritten slot yields an arbitrary value
read(b, i) ==
    IF b.data[i] = Uninit THEN 1..(MaxLen + MaxOps) ELSE {b.data[i]}

\* pop_front that forgets `self.head = (self.head + 1) % N`
pop_front_keeps_head(b) ==
    IF len(b) > 0
    THEN {[buf |-> b, ret |-> item] : item \in read(b, b.head)}
    ELSE {[buf |-> b, ret |-> None]}

\* pop_front that takes the newest item (from the tail end) instead of the oldest
pop_front_from_tail(b) ==
    IF len(b) > 0
    THEN {[buf |-> [b EXCEPT !.tail = ((b.tail + N) - 1) % N], ret |-> item] :
             item \in read(b, ((b.tail + N) - 1) % N)}
    ELSE {[buf |-> b, ret |-> None]}

\* pop_front: the possible (buffer afterwards, Option<T> returned) pairs
pop_front(b) ==
    IF len(b) > 0
    THEN {[buf |-> [b EXCEPT !.head = (b.head + 1) % N], ret |-> item] :
             item \in read(b, b.head)}
    ELSE {[buf |-> b, ret |-> None]}

\* ---- poll results --------------------------------------------------------
NoPoll == [kind |-> "NoPoll", item |-> None]          \* the handle was never polled
Pending == [kind |-> "Pending", item |-> None]        \* Poll::Pending
ReadyNone == [kind |-> "Terminal", item |-> None]     \* Poll::Ready(None)
ReadySome(item) == [kind |-> "Ready", item |-> item]  \* Poll::Ready(Some(item))
Panicked == [kind |-> "Panic", item |-> None]         \* the call unwound

\* ---- SplitByBuffered -----------------------------------------------------
\* the state SplitByBuffered::new builds, before any poll
SplitByBuffered_new ==
    /\ buf_false = RingBuf_new
    /\ buf_true = RingBuf_new
    /\ waker_false = None
    /\ waker_true = None
    /\ pos = 0
    /\ exhausted = FALSE
    /\ lock = "free"
    /\ poisoned = FALSE

\* a registration that overwrites: `*this.waker_x = Some(cx.waker().clone())`
register_overwrites(w, c) == c

\* `if this.waker_x.is_none() { *this.waker_x = Some(cx.waker().clone()) }`
register(w, c) == IF w = None THEN c ELSE w

\* `if let Some(waker) = this.waker_x { waker.wake_by_ref() }`
wake(w) == IF w = None THEN {} ELSE {w}

\* (this.predicate)(&item)
predicate(item) == stream[item]

\* a lock attempt that takes a poisoned Mutex like a sound one
try_lock_ignores_poison == lock = "free"

\* a lock attempt that succeeds whoever holds the Mutex
try_lock_always == TRUE

\* self.stream.try_lock() is Ok: nobody holds the Mutex and it is not poisoned
try_lock == lock = "free" /\ ~poisoned

\* this.stream.poll_next(cx): what upstream may answer now
stream_poll_next ==
    IF exhausted THEN {ReadyNone}
    ELSE IF pos < Len(stream) THEN {ReadySome(pos + 1), Pending}
    ELSE {ReadyNone, Pending}

\* the effect of that answer on upstream itself
stream_advance(r) ==
    /\ pos' = IF r.kind = "Ready" THEN pos + 1 ELSE pos
    /\ exhausted' = (exhausted \/ r.kind = "Terminal")

\* an arm `Poll::Ready(None) => Poll::Pending`: exhaustion is never passed on
stream_arm_never_ends(r) == Pending

\* the arms `Poll::Ready(None) => Poll::Ready(None)` and
\* `Poll::Pending => Poll::Pending` of the match on this.stream.poll_next(cx)
stream_arm(r) == IF r.kind = "Terminal" THEN ReadyNone ELSE Pending

\* the call of handle h returns r: the guard is dropped, the caller sees r
Return(h, r) ==
    /\ res' = [res EXCEPT ![h] = r.kind]
    /\ out' = IF r.kind = "Ready" THEN [out EXCEPT ![h] = Append(@, r.item)] ELSE out
    /\ pc' = [pc EXCEPT ![h] = "idle"]
    /\ lock' = "free"
    /\ inflight' = [inflight EXCEPT ![h] = None]

\* ---- SplitByBuffered::poll_next_true -------------------------------------
\* up to and including this.stream.poll_next(cx); c is cx.waker()
poll_next_true(c) ==
    /\ waker_true' = register(waker_true, c)
    /\ \E o \in pop_front(buf_true) :
         IF o.ret # None
         THEN /\ buf_true' = o.buf
              /\ pend' = [pend EXCEPT !["true"] = Without(@, o.ret)]
              /\ woke' = {}
              /\ Return("true", ReadySome(o.ret))
              /\ UNCHANGED <<pos, exhausted>>
         ELSE IF remaining(buf_false) = 0
         THEN /\ woke' = wake(waker_false)
              /\ Return("true", Pending)
              /\ UNCHANGED <<buf_true, pend, pos, exhausted>>
         ELSE \E r \in stream_poll_next :
              /\ stream_advance(r)
              /\ woke' = {}
              /\ UNCHANGED <<buf_true, pend>>
              /\ IF r.kind = "Ready"
                 THEN /\ inflight' = [inflight EXCEPT !["true"] = r.item]
                      /\ pc' = [pc EXCEPT !["true"] = "predicate"]
                      /\ lock' = "true"
                      /\ UNCHANGED <<res, out>>
                 ELSE Return("true", stream_arm(r))
    /\ UNCHANGED <<stream, buf_false, waker_false, poisoned>>

\* the Poll::Ready(Some(item)) arm: the predicate call and what follows it
poll_next_true_item ==
    /\ pc["true"] = "predicate"
    /\ LET item == inflight["true"] IN
       CASE predicate(item) = "T" ->
              /\ Return("true", ReadySome(item))
              /\ woke' = {}
              /\ UNCHANGED <<buf_false, pend, poisoned>>
         [] predicate(item) = "F" ->
              /\ buf_false' = push_back(buf_false, item).buf
              /\ pend' = IF push_back(buf_false, item).ret = None
                         THEN [pend EXCEPT !["false"] = Append(@, item)]
                         ELSE pend
              /\ woke' = wake(waker_false)
              /\ Return("true", Pending)
              /\ UNCHANGED poisoned
         [] predicate(item) = "P" ->
              \* the panic unwinds: item is dropped, the guard poisons the Mutex
              /\ poisoned' = TRUE
              /\ woke' = {}
              /\ Return("true", Panicked)
              /\ UNCHANGED <<buf_false, pend>>
    /\ UNCHANGED <<N, stream, pos, exhausted, buf_true, waker_true, waker_false>>
    /\ UNCHANGED ringVars

\* ---- SplitByBuffered::poll_next_false ------------------------------------
poll_next_false(c) ==
    /\ waker_false' = register(waker_false, c)
    /\ \E o \in pop_front(buf_false) :
         IF o.ret # None
         THEN /\ buf_false' = o.buf
              /\ pend' = [pend EXCEPT !["false"] = Without(@, o.ret)]
              /\ woke' = {}
              /\ Return("false", ReadySome(o.ret))
              /\ UNCHANGED <<pos, exhausted>>
         ELSE IF remaining(buf_true) = 0
         THEN /\ woke' = wake(waker_true)
              /\ Return("false", Pending)
              /\ UNCHANGED <<buf_false, pend, pos, exhausted>>
         ELSE \E r \in stream_poll_next :
              /\ stream_advance(r)
              /\ woke' = {}
              /\ UNCHANGED <<buf_false, pend>>
              /\ IF r.kind = "Ready"
                 THEN /\ inflight' = [inflight EXCEPT !["false"] = r.item]
                      /\ pc' = [pc EXCEPT !["false"] = "predicate"]
                      /\ lock' = "false"
                      /\ UNCHANGED <<res, out>>
                 ELSE Return("false", stream_arm(r))
    /\ UNCHANGED <<stream, buf_true, waker_true, poisoned>>

poll_next_false_item ==
    /\ pc["false"] = "predicate"
    /\ LET item == inflight["false"] IN
       CASE predicate(item) = "T" ->
              /\ buf_true' = push_back(buf_true, item).buf
              /\ pend' = IF push_back(buf_true, item).ret = None
                         THEN [pend EXCEPT !["true"] = Append(@, item)]
                         ELSE pend
              /\ woke' = wake(waker_true)
              /\ Return("false", Pending)
              /\ UNCHANGED poisoned
         [] predicate(item) = "F" ->
              /\ Return("false", ReadySome(item))
              /\ woke' = {}
              /\ UNCHANGED <<buf_true, pend, poisoned>>
         [] predicate(item) = "P" ->
              /\ poisoned' = TRUE
              /\ woke' = {}
              /\ Return("false", Panicked)
              /\ UNCHANGED <<buf_true, pend>>
    /\ UNCHANGED <<N, stream, pos, exhausted, buf_false, waker_true, waker_false>>
    /\ UNCHANGED ringVars

\* ---- TrueSplitByBuffered::poll_next --------------------------------------
\* try_lock is Ok: the call runs poll_next_true under the guard
True_poll_next(c) ==
    /\ pc["true"] = "idle"
    /\ try_lock
    /\ poll_next_true(c)
    /\ UNCHANGED N
    /\ UNCHANGED ringVars

\* the Err branch without `cx.waker().wake_by_ref()`
True_poll_next_busy_silent(c) ==
    /\ pc["true"] = "idle"
    /\ ~try_lock
    /\ woke' = {}
    /\ res' = [res EXCEPT !["true"] = Pending.kind]
    /\ UNCHANGED <<N, stream, pos, exhausted, buf_true, buf_false, waker_true,
                   waker_false, lock, poisoned, pc, inflight, out, pend>>
    /\ UNCHANGED ringVars

\* try_lock is Err: wake the caller's own waker and return Pending
True_poll_next_busy(c) ==
    /\ pc["true"] = "idle"
    /\ ~try_lock
    /\ woke' = {c}
    /\ res' = [res EXCEPT !["true"] = Pending.kind]
    /\ UNCHANGED <<N, stream, pos, exhausted, buf_true, buf_false, waker_true,
                   waker_false, lock, poisoned, pc, inflight, out, pend>>
    /\ UNCHANGED ringVars

\* the match handle is dropped
True_drop ==
    /\ pc["true"] = "idle"
    /\ pc' = [pc EXCEPT !["true"] = "dropped"]
    /\ woke' = {}
    /\ UNCHANGED <<N, stream, pos, exhausted, buf_true, buf_false, waker_true,
                   waker_false, lock, poisoned, inflight, res, out, pend>>
    /\ UNCHANGED ringVars

\* ---- FalseSplitByBuffered::poll_next -------------------------------------
False_poll_next(c) ==
    /\ pc["false"] = "idle"
    /\ try_lock
    /\ poll_next_false(c)
    /\ UNCHANGED N
    /\ UNCHANGED ringVars

False_poll_next_busy(c) ==
    /\ pc["false"] = "idle"
    /\ ~try_lock
    /\ woke' = {c}
    /\ res' = [res EXCEPT !["false"] = Pending.kind]
    /\ UNCHANGED <<N, stream, pos, exhausted, buf_true, buf_false, waker_true,
                   waker_false, lock, poisoned, pc, inflight, out, pend>>
    /\ UNCHANGED ringVars

\* the non-match handle is dropped
False_drop ==
    /\ pc["false"] = "idle"
    /\ pc' = [pc EXCEPT !["false"] = "dropped"]
    /\ woke' = {}
    /\ UNCHANGED <<N, stream, pos, exhausted, buf_true, buf_false, waker_true,
                   waker_false, lock, poisoned, inflight, res, out, pend>>
    /\ UNCHANGED ringVars

\* ---- specification of the split: any interleaving of the two handles ----
RingIdle ==
    /\ rb = RingBuf_new
    /\ rbq = <<>>
    /\ rbn = 0
    /\ rbs = [i \in 0..(N - 1) |-> "uninit"]
    /\ rop = [op |-> "new", arg |-> None, ret |-> None, held |-> 0,
              front |-> None, slot |-> "none"]

SplitInit(S) ==
    /\ stream \in S
    /\ SplitByBuffered_new
    /\ pc = [h \in Handles |-> "idle"]
    /\ inflight = [h \in Handles |-> None]
    /\ res = [h \in Handles |-> NoPoll.kind]
    /\ out = [h \in Handles |-> <<>>]
    /\ pend = [h \in Handles |-> <<>>]
    /\ woke = {}
    /\ turn = "true"

\* two consumer tasks have been spawned and not polled yet; upstream holds no waker
SchedIdle ==
    /\ notified = Handles
    /\ lost = {}
    /\ up_waker = None
    /\ naps = 0

Init ==
    /\ N \in 1..MaxN
    /\ SplitInit(Streams)
    /\ RingIdle
    /\ SchedIdle

Next ==
    \/ \E c \in Wakers : True_poll_next(c) /\ UNCHANGED <<turn, schedVars>>
    \/ \E c \in Wakers : True_poll_next_busy(c) /\ UNCHANGED <<turn, schedVars>>
    \/ poll_next_true_item /\ UNCHANGED <<turn, schedVars>>
    \/ True_drop /\ UNCHANGED <<turn, schedVars>>
    \/ \E c \in Wakers : False_poll_next(c) /\ UNCHANGED <<turn, schedVars>>
    \/ \E c \in Wakers : False_poll_next_busy(c) /\ UNCHANGED <<turn, schedVars>>
    \/ poll_next_false_item /\ UNCHANGED <<turn, schedVars>>
    \/ False_drop /\ UNCHANGED <<turn, schedVars>>

Spec == Init /\ [][Next]_vars

\* ---- specification of the alternating caller -----------------------------
\* one task polls the match handle, then the non-match handle, and so on;
\* each call runs to its return before the next one starts
AltNext ==
    \/ \E c \in Wakers :
         /\ turn = "true" /\ pc["false"] = "idle"
         /\ True_poll_next(c) /\ turn' = "false" /\ UNCHANGED schedVars
    \/ poll_next_true_item /\ UNCHANGED <<turn, schedVars>>
    \/ \E c \in Wakers :
         /\ turn = "false" /\ pc["true"] = "idle"
         /\ False_poll_next(c) /\ turn' = "true" /\ UNCHANGED schedVars
    \/ poll_next_false_item /\ UNCHANGED <<turn, schedVars>>

AltSpec == Init /\ [][AltNext]_vars

\* ---- specification of the buffer alone -----------------------------------
\* any sequence of push_back and pop_front calls on one RingBuf; the items
\* pushed are numbered 1, 2, ... so that each is told from the others
Ring_push_back ==
    /\ rbn < MaxOps
    /\ LET item == rbn + 1
           r == push_back(rb, item) IN
       /\ rb' = r.buf
       /\ rbq' = IF r.ret = None THEN Append(rbq, item) ELSE rbq
       /\ rbs' = IF r.ret = None THEN [rbs EXCEPT ![rb.tail] = "written"] ELSE rbs
       /\ rop' = [op |-> "push_back", arg |-> item, ret |-> r.ret, held |-> Len(rbq),
                  front |-> Front(rbq), slot |-> "none"]
    /\ rbn' = rbn + 1
    /\ UNCHANGED <<N, coordVars, turn, schedVars>>

Ring_pop_front ==
    /\ \E o \in pop_front(rb) :
         /\ rb' = o.buf
         /\ rbq' = Without(rbq, o.ret)
         /\ rbs' = IF o.ret # None THEN [rbs EXCEPT ![rb.head] = "read"] ELSE rbs
         /\ rop' = [op |-> "pop_front", arg |-> None, ret |-> o.ret, held |-> Len(rbq),
                    front |-> Front(rbq),
                    slot |-> IF o.ret # None THEN rbs[rb.head] ELSE "none"]
    /\ UNCHANGED <<N, coordVars, turn, rbn, schedVars>>

RingInit ==
    /\ N \in 1..MaxN
    /\ SplitInit({<<>>})
    /\ RingIdle
    /\ SchedIdle

RingNext ==
    \/ Ring_push_back
    \/ Ring_pop_front

RingSpec == RingInit /\ [][RingNext]_vars

\* ---- specification of two consumer tasks under a cooperative scheduler ---
\* One task per handle drains it with `while let Some(x) = s.next().await`.
\* A task is polled only after its waker was invoked (once at spawn); it
\* polls again at once after an item, and stops after Ready(None) or a panic.
\* Upstream answers Pending at most MaxNaps times, keeps the waker of the
\* poll it answered so, and invokes it when it becomes ready.
WakerOf(h) == IF h = "true" THEN 1 ELSE 2

\* the tasks a set of wakers reschedules
Woken(ws) == {h \in Handles : WakerOf(h) \in ws}

Running(h) == res[h] \notin {"Terminal", "Panic"}

\* the call of handle h has returned an item: the task's loop polls again
Again(h) == IF pc'[h] = "idle" /\ res'[h] = "Ready" THEN {h} ELSE {}

\* a call of handle h that acquired the coordinator has made its first step
Sched_acquired(h, other_buf) ==
    LET nap == pc'[h] = "idle" /\ res'[h] = "Pending" /\ remaining(other_buf) # 0 IN
    /\ nap => naps < MaxNaps
    /\ naps' = IF nap THEN naps + 1 ELSE naps
    /\ up_waker' = IF nap THEN WakerOf(h) ELSE up_waker
    /\ notified' = ((notified \ {h}) \cup Woken(woke')) \cup Again(h)
    /\ lost' = lost \ {h}
    /\ UNCHANGED turn

\* a call of handle h has found the coordinator taken and returned
Sched_refused(h) ==
    /\ notified' = (notified \ {h}) \cup Woken(woke')
    /\ lost' = lost \cup {h}
    /\ UNCHANGED <<up_waker, naps, turn>>

\* a call of handle h has run the predicate and returned
Sched_returned(h) ==
    /\ notified' = (notified \cup Woken(woke')) \cup Again(h)
    /\ UNCHANGED <<lost, up_waker, naps, turn>>

Sched_True_poll ==
    /\ "true" \in notified /\ Running("true")
    /\ True_poll_next(WakerOf("true"))
    /\ Sched_acquired("true", buf_false)

Sched_True_busy ==
    /\ "true" \in notified /\ Running("true")
    /\ True_poll_next_busy(WakerOf("true"))
    /\ Sched_refused("true")

Sched_True_item ==
    /\ poll_next_true_item
    /\ Sched_returned("true")

Sched_False_poll ==
    /\ "false" \in notified /\ Running("false")
    /\ False_poll_next(WakerOf("false"))
    /\ Sched_acquired("false", buf_true)

Sched_False_busy ==
    /\ "false" \in notified /\ Running("false")
    /\ False_poll_next_busy(WakerOf("false"))
    /\ Sched_refused("false")

Sched_False_item ==
    /\ poll_next_false_item
    /\ Sched_returned("false")

\* upstream has become ready and invokes the waker it kept
Sched_upstream_wake ==
    /\ up_waker # None
    /\ notified' = notified \cup Woken({up_waker})
    /\ up_waker' = None
    /\ UNCHANGED <<N, coordVars, ringVars, turn, lost, naps>>

Sched_True == Sched_True_poll \/ Sched_True_busy \/ Sched_True_item

Sched_False == Sched_False_poll \/ Sched_False_busy \/ Sched_False_item

SchedNext ==
    \/ Sched_True_poll
    \/ Sched_True_busy
    \/ Sched_True_item
    \/ Sched_False_poll
    \/ Sched_False_busy
    \/ Sched_False_item
    \/ Sched_upstream_wake

\* the scheduler runs every woken task, a started call runs to its return,
\* and upstream does announce its readiness
SchedSpec ==
    /\ Init
    /\ [][SchedNext]_vars
    /\ WF_vars(Sched_True)
    /\ WF_vars(Sched_False)
    /\ WF_vars(Sched_upstream_wake)

\* ---- properties ----------------------------------------------------------
Delivered == out["true"] \o out["false"]

NoDup(q) == \A i, j \in 1..Len(q) : q[i] = q[j] => i = j

Pulled == 1..pos

BothTerminal == res["true"] = "Terminal" /\ res["false"] = "Terminal"

\* C1: every item a handle returned was pulled from upstream and has the
\* predicate value of that handle (a predicate-true item is never returned by
\* the non-match handle, a predicate-false item never by the match handle),
\* and no upstream item is returned twice across the two handles.
C1_RoutedRightAndOnce ==
    /\ \A i \in 1..Len(out["true"]) :
         out["true"][i] \in Pulled /\ predicate(out["true"][i]) = "T"
    /\ \A i \in 1..Len(out["false"]) :
         out["false"][i] \in Pulled /\ predicate(out["false"][i]) = "F"
    /\ NoDup(Delivered)

\* both handles have returned items, one of them out of buf_true
C1_Witness ==
    /\ Len(out["true"]) >= 1
    /\ Len(out["false"]) >= 1
    /\ buf_true.head = 1

\* C2, as claimed: once both handles have reported terminal (after which
\* neither returns anything more), every item upstream yielded has been
\* returned by a handle.
C2_NoSilentDrop ==
    BothTerminal => \A i \in Pulled : \E k \in 1..Len(Delivered) : Delivered[k] = i

\* C3: the items each handle returns are in upstream order.
C3_OrderPreserved ==
    \A h \in Handles : \A i, j \in 1..Len(out[h]) : i < j => out[h][i] < out[h][j]

\* the match handle returned a buffered item and then a later one
C3_Witness ==
    /\ Len(out["true"]) >= 2
    /\ buf_true.head = 1
    /\ Len(out["false"]) >= 1

\* C4, as claimed: the buffer never holds more than N accepted, not yet popped
\* items, and a push_back made while it holds N of them hands the item back.
C4_FullPushRejected ==
    /\ Len(rbq) <= N
    /\ (rop.op = "push_back" /\ rop.held = N) => rop.ret = rop.arg

\* C5, as claimed: a poll made while the other buffer has N items routed to it
\* and not yet consumed, and the own buffer has none, does not pull from
\* upstream, invokes the other partition's recorded waker and returns Pending.
C5_FullSiblingBlocksPull ==
    [][ /\ (/\ Len(pend["false"]) = N
            /\ pend["true"] = <<>>
            /\ \E c \in Wakers : True_poll_next(c))
           => (pos' = pos /\ res'["true"] = "Pending" /\ woke' = wake(waker_false))
        /\ (/\ Len(pend["true"]) = N
            /\ pend["false"] = <<>>
            /\ \E c \in Wakers : False_poll_next(c))
           => (pos' = pos /\ res'["false"] = "Pending" /\ woke' = wake(waker_true))
      ]_vars

\* C6, as claimed: with N = 1 and upstream [A, B, C] where the predicate holds
\* of B only, alternating polls (match first) end with A and C returned by
\* non-match, B by match, once both have reported terminal.
C6_AlternatingScenario ==
    (N = 1 /\ stream = <<"F", "T", "F">> /\ BothTerminal)
        => (out["true"] = <<2>> /\ out["false"] = <<1, 3>>)

\* C7, as claimed: a handle whose last poll reported terminal has no item that
\* was routed into its buffer and not yet returned.
C7_NoTerminalWhileHolding ==
    \A h \in Handles : res[h] = "Terminal" => pend[h] = <<>>

\* C8: when upstream is exhausted and both buffers are empty, a poll of either
\* handle that acquires the coordinator returns terminal at once.
C8_ExhaustedThenTerminal ==
    [][ (exhausted /\ is_empty(buf_true) /\ is_empty(buf_false)) =>
          /\ (\E c \in Wakers : True_poll_next(c))
                => (res'["true"] = "Terminal" /\ pc'["true"] = "idle" /\ out' = out)
          /\ (\E c \in Wakers : False_poll_next(c))
                => (res'["false"] = "Terminal" /\ pc'["false"] = "idle" /\ out' = out)
      ]_vars

\* both handles have reported terminal after upstream yielded items
C8_Witness ==
    /\ exhausted
    /\ is_empty(buf_true) /\ is_empty(buf_false)
    /\ BothTerminal
    /\ Len(out["true"]) >= 1 /\ Len(out["false"]) >= 1

\* C9, as claimed: after a poll call has unwound from a panic of the predicate,
\* upstream is where it was before the call: the item whose classification
\* panicked has not been consumed.
C9_PanicLeavesUpstream ==
    \A h \in Handles : res[h] = "Panic" => \A i \in Pulled : predicate(i) # "P"

\* the coordinator state the Mutex guards
CoordState == <<pos, exhausted, buf_true, buf_false, waker_true, waker_false>>

\* C10: upstream, the buffers and the wakers change only in a step of a poll
\* call that holds the Mutex (it found it free and unpoisoned, or holds it
\* since); nothing is pulled before the first poll, dropped handles or not;
\* and at most one item is in flight, held by the call that holds the Mutex.
C10_OnlyUnderLock ==
    /\ [](/\ Cardinality({h \in Handles : inflight[h] # None}) <= 1
          /\ \A h \in Handles : inflight[h] # None => lock = h
          /\ (\A h \in Handles : res[h] = "NoPoll" /\ pc[h] # "predicate")
                => (pos = 0 /\ buf_true = RingBuf_new /\ buf_false = RingBuf_new
                    /\ waker_true = None /\ waker_false = None))
    /\ [][ CoordState' # CoordState =>
             \/ /\ lock = "free" /\ ~poisoned /\ pc["false"] # "predicate"
                /\ \E c \in Wakers : True_poll_next(c)
             \/ /\ lock = "true" /\ pc["false"] # "predicate"
                /\ poll_next_true_item
             \/ /\ lock = "free" /\ ~poisoned /\ pc["true"] # "predicate"
                /\ \E c \in Wakers : False_poll_next(c)
             \/ /\ lock = "false" /\ pc["true"] # "predicate"
                /\ poll_next_false_item
         ]_vars

\* the match call holds an item in flight while the non-match handle, polled
\* meanwhile, found the Mutex taken
C10_Witness ==
    /\ inflight["true"] # None
    /\ lock = "true"
    /\ res["false"] = "Pending"
    /\ woke # {}

\* the Mutex can be taken: nobody holds it and it is not poisoned
Available == lock = "free" /\ ~poisoned

\* C12: a poll made while the Mutex cannot be taken returns Pending, invokes
\* one waker, the caller's own, and leaves the buffers, the recorded wakers,
\* upstream, the Mutex and the outputs as they were.
C12_BusyPollChangesNothing ==
    [][ /\ (~Available /\ pc' = pc /\ (res' # res \/ woke' # woke))
           => /\ CoordState' = CoordState
              /\ lock' = lock /\ poisoned' = poisoned
              /\ out' = out /\ pend' = pend /\ inflight' = inflight
              /\ \E h \in Handles : res' = [res EXCEPT ![h] = "Pending"]
              /\ \E c \in Wakers : woke' = {c}
        /\ \A c \in Wakers :
             (True_poll_next_busy(c) \/ False_poll_next_busy(c)) => woke' = {c}
      ]_vars

\* the non-match handle was polled while the match call held the Mutex
C12_Witness ==
    /\ lock = "true"
    /\ pc["true"] = "predicate"
    /\ res["false"] = "Pending"
    /\ woke # {}
    /\ waker_false = None

\* C14: the step that classifies a pulled item for the other partition stores
\* it in the other buffer (push_back accepts it), invokes the other
\* partition's recorded waker if there is one, and returns Pending with
\* nothing delivered.
C14_ItemForSibling ==
    [][ /\ (pc["true"] = "predicate" /\ pc'["true"] = "idle"
                /\ predicate(inflight["true"]) = "F")
           => /\ pend'["false"] = Append(pend["false"], inflight["true"])
              /\ buf_false'.data[buf_false.tail] = inflight["true"]
              /\ woke' = (IF waker_false = None THEN {} ELSE {waker_false})
              /\ res'["true"] = "Pending"
              /\ out' = out
        /\ (pc["false"] = "predicate" /\ pc'["false"] = "idle"
                /\ predicate(inflight["false"]) = "T")
           => /\ pend'["true"] = Append(pend["true"], inflight["false"])
              /\ buf_true'.data[buf_true.tail] = inflight["false"]
              /\ woke' = (IF waker_true = None THEN {} ELSE {waker_true})
              /\ res'["false"] = "Pending"
              /\ out' = out
      ]_vars

\* the match call has just stored an item for non-match and invoked its waker
C14_Witness ==
    /\ Available
    /\ res["true"] = "Pending"
    /\ waker_false # None
    /\ woke = {waker_false}
    /\ Len(pend["false"]) >= 1

\* C15: a recorded waker is never replaced, and a poll that acquires the
\* coordinator while none is recorded for its partition records its own.
C15_RegisterOnce ==
    [][ /\ (waker_true # None => waker_true' = waker_true)
        /\ (waker_false # None => waker_false' = waker_false)
        /\ \A c \in Wakers :
             /\ (True_poll_next(c) /\ waker_true = None) => waker_true' = c
             /\ (False_poll_next(c) /\ waker_false = None) => waker_false' = c
      ]_vars

\* both partitions have a recorded waker and match was polled again afterwards
C15_Witness ==
    /\ waker_true # None
    /\ waker_false # None
    /\ waker_true # waker_false
    /\ Len(out["true"]) >= 2

\* C16, as claimed: after a poll that acquires the coordinator, the waker
\* recorded for its partition is the one that poll was given.
C16_LatestWakerRecorded ==
    [][ \A c \in Wakers :
          /\ True_poll_next(c) => waker_true' = c
          /\ False_poll_next(c) => waker_false' = c
      ]_vars

\* C18: in every reachable state both buffers have len() in 0..N-1 and
\* remaining() >= 1, so that the `remaining() == 0` branch of poll_next_true
\* and poll_next_false cannot be taken and push_back hands no item back.
C18_NeverFull ==
    \A b \in {buf_true, buf_false} :
        /\ len(b) \in 0..(N - 1)
        /\ remaining(b) >= 1
        /\ \A item \in 1..MaxLen : push_back(b, item).ret = None

\* more than N items were pushed into a buffer and none popped
C18_Witness ==
    \E h \in Handles : Len(pend[h]) > N

\* C19: once the Mutex is poisoned it stays poisoned, no step changes the
\* coordinator or delivers anything, and every poll that returns returns
\* Pending after invoking one waker.
C19_PoisonedForever ==
    [][ poisoned =>
          /\ poisoned'
          /\ CoordState' = CoordState
          /\ out' = out
          /\ \A h \in Handles :
               res'[h] # res[h] => (res'[h] = "Pending" /\ \E c \in Wakers : woke' = {c})
      ]_vars

\* the match call panicked and the non-match handle was polled afterwards
C19_Witness ==
    /\ poisoned
    /\ res["true"] = "Panic"
    /\ res["false"] = "Pending"
    /\ woke # {}

\* C17, as claimed: the buffer is a FIFO queue of capacity N: remaining() is N
\* minus the number of accepted, not yet popped items, and pop_front returns
\* the oldest of them, or nothing when there is none.
C17_FifoOfCapacityN ==
    /\ remaining(rb) = N - Len(rbq)
    /\ rop.op = "pop_front" => rop.ret = rop.front

\* C20: a pop_front that returns an item has read a slot that push_back wrote
\* and that no pop_front has read since: never an unwritten slot, never a
\* slot whose item was already moved out.
C20_ReadsWrittenSlot ==
    (rop.op = "pop_front" /\ rop.ret # None) => rop.slot = "written"

\* a pop_front returned an item from a slot that was read once before and
\* written again since
C20_Witness ==
    /\ rop.op = "pop_front"
    /\ rop.ret # None
    /\ rbn > N
    /\ \E i \in 0..(N - 1) : i # rb.head /\ rbs[i] = "read"
    /\ rop.ret > N

\* the predicate panics on some upstream item
PanicInStream == \E i \in 1..Len(stream) : stream[i] = "P"

\* C11, as claimed: no wakeup is lost, so with a finite upstream and two tasks
\* that poll again only when their waker is invoked, both tasks eventually
\* receive the terminal result (a panicking predicate set aside).
C11_BothReachTerminal ==
    <>(PanicInStream \/ \A h \in Handles : res[h] = "Terminal")

\* C13, as claimed: a task whose poll lost the lock attempt is rescheduled
\* and eventually acquires the coordinator and runs its own poll operation.
C13_LoserAcquires ==
    \A h \in Handles : (h \in lost) ~> (h \notin lost)

====
